---------------------------- MODULE Spec2Model ----------------------------
(* A model of the amateur-callsigns mirror: the discovery stage            *)
(* (scrape-and-download: findCsvLink, extractUpdateDateFromHtmlTable,      *)
(* buildAbsoluteOfcomUrl, downloadFile, main) and the processing stage     *)
(* (process-csv.ts: isProcessingNeeded, processCSV, main), which hand over *)
(* through the files of the working directory.                             *)
(*                                                                         *)
(* Strings the code inspects (hrefs, link texts, cell texts, sort keys)    *)
(* are sequences of one-character strings, so that toLowerCase, includes,  *)
(* startsWith, trim and the scheme test are computed character by          *)
(* character.                                                              *)
EXTENDS Integers, Sequences, FiniteSets, TLC

VARIABLES
    fs,      \* the working directory: file name -> content
    ppc,     \* position of the processing run (process-csv.ts main)
    pl,      \* locals of the processing run
    dpc,     \* position of the discovery run (scrape-and-download main)
    dl,      \* locals of the discovery run
    hist,    \* what the finished runs did (exit codes, writes), for the properties
    budget,  \* the runs and the faults (failed writes, tamperings) still allowed
    fn       \* argument and result of a function applied on its own

vars == <<fs, ppc, pl, dpc, dl, hist, budget, fn>>

-----------------------------------------------------------------------------
(* Bounds *)

MaxRuns == 3
MaxFaults == 2
MaxElements == 2
MaxNodes == 4
MaxPath == 3
MaxRows == 3
MaxCandidates == 3

-----------------------------------------------------------------------------
(* Strings *)

Null == <<>>
Some(x) == <<x>>
IsNull(o) == o = <<>>
Val(o) == o[1]

UpperToLower ==
    ("A" :> "a") @@ ("M" :> "m") @@ ("T" :> "t") @@ ("E" :> "e") @@
    ("U" :> "u") @@ ("R" :> "r") @@ ("C" :> "c") @@ ("S" :> "s") @@
    ("V" :> "v") @@ ("H" :> "h") @@ ("P" :> "p") @@ ("B" :> "b") @@
    ("G" :> "g") @@ ("Z" :> "z") @@ ("L" :> "l") @@ ("I" :> "i") @@
    ("N" :> "n")

\* String.prototype.toLowerCase, one character
LowerChar(c) == IF c \in DOMAIN UpperToLower THEN UpperToLower[c] ELSE c

\* String.prototype.toLowerCase
ToLowerCase(s) == [i \in 1..Len(s) |-> LowerChar(s[i])]

\* String.prototype.includes
Includes(s, sub) ==
    \E i \in 0..(Len(s) - Len(sub)) : SubSeq(s, i + 1, i + Len(sub)) = sub

\* String.prototype.startsWith
StartsWith(s, p) == Len(s) >= Len(p) /\ SubSeq(s, 1, Len(p)) = p

WhiteSpace == {" ", "\n", "\t"}

RECURSIVE TrimStart(_)
TrimStart(s) ==
    IF s # <<>> /\ Head(s) \in WhiteSpace THEN TrimStart(Tail(s)) ELSE s

RECURSIVE TrimEnd(_)
TrimEnd(s) ==
    IF s # <<>> /\ s[Len(s)] \in WhiteSpace
    THEN TrimEnd(SubSeq(s, 1, Len(s) - 1))
    ELSE s

\* String.prototype.trim
Trim(s) == TrimEnd(TrimStart(s))

str_amateur == <<"a", "m", "a", "t", "e", "u", "r">>
str_csv == <<".", "c", "s", "v">>
str_http == <<"h", "t", "t", "p", ":", "/", "/">>
str_https == <<"h", "t", "t", "p", "s", ":", "/", "/">>
str_slash == <<"/">>

\* CONSTANTS.URLS.OFCOM_BASE_URL: "https://www.ofcom.org.uk"
OFCOM_BASE_URL ==
    <<"h", "t", "t", "p", "s", ":", "/", "/", "w", "w", "w", ".",
      "o", "f", "c", "o", "m", ".", "o", "r", "g", ".", "u", "k">>

-----------------------------------------------------------------------------
(* The parsed document: its elements in document order (a preorder walk),  *)
(* each with its tag name, its parent's index (0: parentElement is null),  *)
(* its href attribute (Null when absent) and the text it holds itself.     *)

Tag(doc, n) == doc[n].tag
Parent(doc, n) == doc[n].parent

RECURSIVE IsAncestor(_, _, _)
\* a is a proper ancestor of n
IsAncestor(doc, a, n) ==
    LET p == Parent(doc, n)
    IN  IF p = 0 THEN FALSE
        ELSE IF p = a THEN TRUE
        ELSE IsAncestor(doc, a, p)

Indices(doc) == [i \in 1..Len(doc) |-> i]

\* Element.querySelectorAll(tag), from element `root` (0: the document)
QuerySelectorAll(doc, root, tag) ==
    SelectSeq(Indices(doc),
              LAMBDA i : Tag(doc, i) = tag /\ (root = 0 \/ IsAncestor(doc, root, i)))

RECURSIVE ConcatText(_, _, _)
ConcatText(doc, n, i) ==
    IF i > Len(doc) THEN <<>>
    ELSE (IF i = n \/ IsAncestor(doc, n, i) THEN doc[i].text ELSE <<>>)
         \o ConcatText(doc, n, i + 1)

\* Node.textContent: the text of the element and of its descendants, in
\* document order
TextContent(doc, n) == ConcatText(doc, n, n)

-----------------------------------------------------------------------------
(* findCsvLink *)

NoLink == [kind |-> "none", href |-> <<>>, text |-> <<>>, element |-> 0]

\* the filter of the forEach: href && lower.includes('amateur') && lower.includes('.csv')
IsCsvLink(doc, i) ==
    LET href == doc[i].href
    IN  /\ ~IsNull(href)
        /\ Val(href) # <<>>
        /\ Includes(ToLowerCase(Val(href)), str_amateur)
        /\ Includes(ToLowerCase(Val(href)), str_csv)

\* the HtmlLinkDetails pushed for anchor i
LinkDetails(doc, i) ==
    [kind |-> "ok",
     href |-> Val(doc[i].href),
     text |-> Trim(TextContent(doc, i)),
     element |-> i]

CsvLinks(doc) ==
    SelectSeq(QuerySelectorAll(doc, 0, "A"), LAMBDA i : IsCsvLink(doc, i))

\* the legacy policy: the first candidate stands for all of them
FindCsvLinkFirst(doc) ==
    LET csvLinks == CsvLinks(doc)
    IN  IF Len(csvLinks) = 0
        THEN [NoLink EXCEPT !.kind = "NotFound"]
        ELSE LinkDetails(doc, csvLinks[1])

FindCsvLink(doc) ==
    LET csvLinks == CsvLinks(doc)
    IN  IF Len(csvLinks) = 0
        THEN [NoLink EXCEPT !.kind = "NotFound"]
        ELSE IF Len(csvLinks) > 1
        THEN [NoLink EXCEPT !.kind = "Ambiguous"]
        ELSE LinkDetails(doc, csvLinks[1])

-----------------------------------------------------------------------------
(* extractUpdateDateFromHtmlTable *)

\* the state of the upward walk: the two locals and the iterations made
WalkInit(link) == [element |-> link, tableRow |-> 0, steps |-> 0]

\* the while condition: element && element.tagName !== 'TR'
WalkContinue(doc, w) == w.element # 0 /\ Tag(doc, w.element) # "TR"

\* one iteration of the while loop
WalkStep(doc, w) ==
    LET p == Parent(doc, w.element)
    IN  [element |-> p,
         tableRow |-> IF p # 0 /\ Tag(doc, p) = "TR" THEN p ELSE w.tableRow,
         steps |-> w.steps + 1]

RECURSIVE WalkRun(_, _)
WalkRun(doc, w) ==
    IF WalkContinue(doc, w) THEN WalkRun(doc, WalkStep(doc, w)) ELSE w

\* reads the first cell instead of the second
DateOfRowFirstCell(doc, tableRow) ==
    IF tableRow = 0 THEN Null
    ELSE LET cells == QuerySelectorAll(doc, tableRow, "TD")
         IN  IF Len(cells) > 1
             THEN LET date == Trim(TextContent(doc, cells[1]))
                  IN  IF date # <<>> THEN Some(date) ELSE Null
             ELSE Null

\* the part after the loop: cells[1].textContent?.trim() || null
DateOfRow(doc, tableRow) ==
    IF tableRow = 0 THEN Null
    ELSE LET cells == QuerySelectorAll(doc, tableRow, "TD")
         IN  IF Len(cells) > 1
             THEN LET date == Trim(TextContent(doc, cells[2]))
                  IN  IF date # <<>> THEN Some(date) ELSE Null
             ELSE Null

ExtractUpdateDateFromHtmlTable(doc, link) ==
    DateOfRow(doc, WalkRun(doc, WalkInit(link)).tableRow)

-----------------------------------------------------------------------------
(* buildAbsoluteOfcomUrl *)

\* url.match(/^https?:\/\//)
MatchesScheme(url) == StartsWith(url, str_http) \/ StartsWith(url, str_https)

\* prepends the separator whether or not the path has one
BuildAbsoluteOfcomUrlAlwaysSlash(url) ==
    IF MatchesScheme(url) THEN url
    ELSE OFCOM_BASE_URL \o str_slash \o url

BuildAbsoluteOfcomUrl(url) ==
    IF MatchesScheme(url) THEN url
    ELSE LET relativeUrl == IF StartsWith(url, str_slash) THEN url ELSE str_slash \o url
         IN  OFCOM_BASE_URL \o relativeUrl

-----------------------------------------------------------------------------
(* The working directory. A file's content is Missing (no such file),      *)
(* Empty (zero bytes), Garbage (bytes that parse as nothing), CSV text,    *)
(* the JSON text of a record set or the JSON text of an object.            *)

Missing == <<"missing">>
Empty == <<"empty">>
Garbage == <<"garbage">>
Csv(rows) == <<"csv", rows>>
JsonRows(rows) == <<"jsonRows", rows>>
JsonObj(obj) == <<"jsonObj", obj>>

\* CONSTANTS.FILES. The saved page (htmlOutput) is written and never read:
\* the directory does not keep its content.
FILES ==
    [originalRawCsvFile |-> "raw",
     sortedCsvFile |-> "sortedCsv",
     jsonFile |-> "json",
     sortedJsonFile |-> "sortedJson",
     metadataFile |-> "metadata",
     downloadMetadataFile |-> "downloadMetadata"]

FileNames == {FILES[k] : k \in DOMAIN FILES}

\* fs.statSync(path).size, in lines of text
Size(c) ==
    IF c = Empty THEN 0
    ELSE IF c[1] = "csv" THEN 1 + Len(c[2])
    ELSE IF c[1] = "jsonRows" THEN 2 + Len(c[2])
    ELSE 1

\* utils.fileExistsAndNotEmpty
FileExistsAndNotEmpty(c) == IF c = Missing THEN FALSE ELSE Size(c) > 0

\* utils.calculateFileHash of a file that exists: the digest of its bytes
CalculateFileHash(c) == <<"sha256", c>>

\* utils.loadJsonFile: null for a missing file and for text JSON.parse rejects
LoadJsonFile(c) ==
    IF c = Missing THEN Null
    ELSE IF c[1] = "jsonObj" \/ c[1] = "jsonRows" THEN Some(c[2])
    ELSE Null

\* JSON.stringify(data, null, 2) of the record sets and of the metadata objects
JsonStringifyRows(rows) == JsonRows(rows)
JsonStringifyObj(obj) == JsonObj(obj)

\* csv-parse/sync parse(csvContent, {columns: true}): Null when it throws
Parse(c) == IF c[1] = "csv" THEN Some(c[2]) ELSE Null

\* csv-stringify/sync stringify(rows, {header: true})
Stringify(rows) == Csv(rows)

Undefined == <<"undefined">>

\* obj.name of a parsed JSON object: undefined for a field it has not
Field(obj, name) == IF name \in DOMAIN obj THEN obj[name] ELSE Undefined

\* what a write that fails leaves behind: the open fails and the file is as
\* it was, or the file was opened (truncated) and no byte arrived
WriteResult(old, new, outcome) ==
    IF outcome = "ok" THEN new
    ELSE IF outcome = "openFailed" THEN old
    ELSE Empty

\* fs.writeFile(name, content): the files afterwards, and whether it threw
WriteFile(name, content, outcome) ==
    [files |-> [fs EXCEPT ![name] = WriteResult(@, content, outcome)],
     returned |-> outcome = "ok",
     thrown |-> outcome # "ok"]

\* utils.saveJsonFile(name, data): the error of the write is caught and
\* logged, and false is returned
SaveJsonFile(name, content, outcome) ==
    [files |-> [fs EXCEPT ![name] = WriteResult(@, content, outcome)],
     returned |-> outcome = "ok",
     thrown |-> FALSE]

-----------------------------------------------------------------------------
(* The sort of processCSV: [...csvData].sort(compare), a stable sort, on   *)
(* the lower-cased value of the first column.                              *)

\* the order localeCompare gives the characters of the keys: digits first
Collation == <<"0", "1", "2", "a", "b", "g", "m", "z">>

Rank(c) == CHOOSE i \in 1..Len(Collation) : Collation[i] = c

RECURSIVE LocaleCompare(_, _)
LocaleCompare(a, b) ==
    IF a = <<>> THEN (IF b = <<>> THEN 0 ELSE -1)
    ELSE IF b = <<>> THEN 1
    ELSE IF Rank(Head(a)) < Rank(Head(b)) THEN -1
    ELSE IF Rank(Head(a)) > Rank(Head(b)) THEN 1
    ELSE LocaleCompare(Tail(a), Tail(b))

\* a[firstColumnName] || '': the empty string for a value that is not there
KeyOf(r) == IF r.key = Undefined THEN <<>> ELSE r.key

\* the comparator: String(a[firstColumnName] || '').toLowerCase().localeCompare(...)
CompareRows(a, b) == LocaleCompare(ToLowerCase(KeyOf(a)), ToLowerCase(KeyOf(b)))

RECURSIVE InsertRow(_, _)
InsertRow(s, r) ==
    IF s = <<>> THEN <<r>>
    ELSE IF CompareRows(s[Len(s)], r) <= 0 THEN Append(s, r)
    ELSE Append(InsertRow(SubSeq(s, 1, Len(s) - 1), r), s[Len(s)])

RECURSIVE SortRows(_)
SortRows(rows) ==
    IF rows = <<>> THEN <<>>
    ELSE InsertRow(SortRows(SubSeq(rows, 1, Len(rows) - 1)), rows[Len(rows)])

\* sorts the parsed records themselves
SortInPlace(csvData) ==
    [csvData |-> SortRows(csvData), sortedCsvData |-> SortRows(csvData)]

\* const sortedCsvData = [...csvData].sort(...): the copy is sorted, and both
\* collections are serialized afterwards
SortCopy(csvData) ==
    [csvData |-> csvData, sortedCsvData |-> SortRows(csvData)]

-----------------------------------------------------------------------------
(* isProcessingNeeded *)

\* forgets the sorted JSON file
IsProcessingNeededTwoFiles(f, originalCsvHash) ==
    IF f["metadata"] = Missing THEN TRUE
    ELSE LET existingMetadata == LoadJsonFile(f["metadata"])
         IN  ~ (/\ ~IsNull(existingMetadata)
                /\ Field(Val(existingMetadata), "originalCsvHash") = originalCsvHash
                /\ FileExistsAndNotEmpty(f["sortedCsv"])
                /\ FileExistsAndNotEmpty(f["json"]))

\* takes a metadata file it cannot read for one that matches
IsProcessingNeededUnreadableOk(f, originalCsvHash) ==
    IF f["metadata"] = Missing THEN TRUE
    ELSE LET existingMetadata == LoadJsonFile(f["metadata"])
         IN  /\ ~IsNull(existingMetadata)
             /\ ~ (/\ Field(Val(existingMetadata), "originalCsvHash") = originalCsvHash
                    /\ FileExistsAndNotEmpty(f["sortedCsv"])
                    /\ FileExistsAndNotEmpty(f["json"])
                    /\ FileExistsAndNotEmpty(f["sortedJson"]))

IsProcessingNeeded(f, originalCsvHash) ==
    IF f["metadata"] = Missing THEN TRUE
    ELSE LET existingMetadata == LoadJsonFile(f["metadata"])
         IN  ~ (/\ ~IsNull(existingMetadata)
                /\ Field(Val(existingMetadata), "originalCsvHash") = originalCsvHash
                /\ FileExistsAndNotEmpty(f["sortedCsv"])
                /\ FileExistsAndNotEmpty(f["json"])
                /\ FileExistsAndNotEmpty(f["sortedJson"]))

-----------------------------------------------------------------------------
(* processCSV: the metadata object it builds *)

\* the three optional fields, copied from the download metadata when there is one
Provenance(downloadMetadata) ==
    IF IsNull(downloadMetadata) THEN Null
    ELSE Some([url |-> Field(Val(downloadMetadata), "url"),
               ofcomLastUpdate |-> Field(Val(downloadMetadata), "ofcomReportedLastUpdate"),
               linkText |-> Field(Val(downloadMetadata), "linkText")])

\* records the digest of the sorted file as that of the original
BuildMetadataSortedHash(f, originalCsvHash, downloadMetadata, csvData) ==
    [originalCsvSize |-> Size(f["raw"]),
     originalCsvHash |-> CalculateFileHash(f["sortedCsv"]),
     sortedCsvSize |-> Size(f["sortedCsv"]),
     sortedCsvHash |-> CalculateFileHash(f["sortedCsv"]),
     originalJsonSize |-> Size(f["json"]),
     originalJsonHash |-> CalculateFileHash(f["json"]),
     sortedJsonSize |-> Size(f["sortedJson"]),
     sortedJsonHash |-> CalculateFileHash(f["sortedJson"]),
     recordCount |-> Len(csvData),
     provenance |-> Provenance(downloadMetadata)]

\* keeps the three optional fields of the record on disk when there is no
\* download metadata
BuildMetadataCarryOver(f, originalCsvHash, downloadMetadata, csvData) ==
    [originalCsvSize |-> Size(f["raw"]),
     originalCsvHash |-> originalCsvHash,
     sortedCsvSize |-> Size(f["sortedCsv"]),
     sortedCsvHash |-> CalculateFileHash(f["sortedCsv"]),
     originalJsonSize |-> Size(f["json"]),
     originalJsonHash |-> CalculateFileHash(f["json"]),
     sortedJsonSize |-> Size(f["sortedJson"]),
     sortedJsonHash |-> CalculateFileHash(f["sortedJson"]),
     recordCount |-> Len(csvData),
     provenance |->
        IF /\ IsNull(downloadMetadata)
           /\ ~IsNull(LoadJsonFile(f["metadata"]))
           /\ "provenance" \in DOMAIN Val(LoadJsonFile(f["metadata"]))
        THEN Val(LoadJsonFile(f["metadata"])).provenance
        ELSE Provenance(downloadMetadata)]

\* records the digests and sizes of what was handed to the writes, not of
\* the files
BuildMetadataOfIntended(f, originalCsvHash, downloadMetadata, csvData) ==
    [originalCsvSize |-> Size(f["raw"]),
     originalCsvHash |-> originalCsvHash,
     sortedCsvSize |-> Size(Stringify(SortRows(csvData))),
     sortedCsvHash |-> CalculateFileHash(Stringify(SortRows(csvData))),
     originalJsonSize |-> Size(JsonStringifyRows(csvData)),
     originalJsonHash |-> CalculateFileHash(JsonStringifyRows(csvData)),
     sortedJsonSize |-> Size(JsonStringifyRows(SortRows(csvData))),
     sortedJsonHash |-> CalculateFileHash(JsonStringifyRows(SortRows(csvData))),
     recordCount |-> Len(csvData),
     provenance |-> Provenance(downloadMetadata)]

BuildMetadata(f, originalCsvHash, downloadMetadata, csvData) ==
    [originalCsvSize |-> Size(f["raw"]),
     originalCsvHash |-> originalCsvHash,
     sortedCsvSize |-> Size(f["sortedCsv"]),
     sortedCsvHash |-> CalculateFileHash(f["sortedCsv"]),
     originalJsonSize |-> Size(f["json"]),
     originalJsonHash |-> CalculateFileHash(f["json"]),
     sortedJsonSize |-> Size(f["sortedJson"]),
     sortedJsonHash |-> CalculateFileHash(f["sortedJson"]),
     recordCount |-> Len(csvData),
     provenance |-> Provenance(downloadMetadata)]

-----------------------------------------------------------------------------
(* What the servers can answer *)

Row(k, i) == [key |-> k, id |-> i]

RowsA == <<Row(<<"M", "0">>, 1), Row(<<"g", "1">>, 2), Row(<<"A", "9">>, 3)>>
RowsB == <<Row(<<"b">>, 1), Row(<<"B">>, 2), Row(<<"2">>, 3)>>

\* the bodies the file server can send: nothing, bytes that are no CSV, a
\* header without rows, and two record sets
UpstreamFiles == {Empty, Garbage, Csv(<<>>), Csv(RowsA), Csv(RowsB)}

-----------------------------------------------------------------------------
(* The runs. One run at a time: the stages are separate processes that the *)
(* schedule starts one after the other.                                    *)

DerivedFiles == {"sortedCsv", "json", "sortedJson", "metadata"}
TrackedFiles == DerivedFiles \cup {"raw"}

Idle == ppc = "idle" /\ dpc = "idle"

PlInit ==
    [originalCsvHash |-> Null,
     downloadMetadata |-> Null,
     needsProcessing |-> FALSE,
     csvData |-> <<>>,
     sortedCsvData |-> <<>>,
     metadata |-> Null,
     wrote |-> {},
     failed |-> {},
     metadataSaved |-> FALSE,
     exitCode |-> -1,
     repeated |-> FALSE,
     healing |-> FALSE,
     atStart |-> [n \in FileNames |-> Missing]]

\* the outcomes of a write: a failure is an I/O fault of the environment
WriteOutcomes ==
    {"ok"} \cup (IF budget.faults > 0 THEN {"openFailed", "writeFailed"} ELSE {})

Spend(outcome) ==
    IF outcome = "ok" THEN budget ELSE [budget EXCEPT !.faults = @ - 1]

\* the files a run has changed make the directory differ from what the last
\* processing run left
HistAfter(f) ==
    IF \A n \in TrackedFiles : f[n] = fs[n] THEN hist
    ELSE [hist EXCEPT !.clean = FALSE, !.oneGone = FALSE]

\* names a column also when there is no record
FirstColumnNameAlways(csvData) == Some("key")

\* Object.keys(csvData[0])[0]: a TypeError (Null) when there is no record
FirstColumnName(csvData) == IF csvData = <<>> THEN Null ELSE Some("key")

\* process-csv.ts is started
StartProcess ==
    /\ Idle
    /\ budget.runs > 0
    /\ budget' = [budget EXCEPT !.runs = @ - 1]
    /\ ppc' = "checkRaw"
    /\ pl' = [PlInit EXCEPT !.repeated = (hist.procExit = 0 /\ hist.clean),
                            !.healing = hist.oneGone,
                            !.atStart = fs]
    /\ UNCHANGED <<fs, dpc, dl, hist, fn>>

\* main: the raw file must exist and hold something
ProcCheckRaw ==
    /\ ppc = "checkRaw"
    /\ IF FileExistsAndNotEmpty(fs["raw"])
       THEN ppc' = "decide" /\ pl' = pl
       ELSE ppc' = "done" /\ pl' = [pl EXCEPT !.exitCode = 1,
                                              !.failed = @ \cup {"noRawFile"}]
    /\ UNCHANGED <<fs, dpc, dl, hist, budget, fn>>

\* main: load the download metadata, hash the raw file, isProcessingNeeded
ProcDecide ==
    /\ ppc = "decide"
    /\ LET originalCsvHash == CalculateFileHash(fs["raw"])
       IN  pl' = [pl EXCEPT
                   !.downloadMetadata = LoadJsonFile(fs["downloadMetadata"]),
                   !.originalCsvHash = Some(originalCsvHash),
                   !.needsProcessing = IsProcessingNeeded(fs, originalCsvHash)]
    /\ ppc' = "decided"
    /\ UNCHANGED <<fs, dpc, dl, hist, budget, fn>>

\* main: if (needsProcessing) processCSV(...) else nothing
ProcBranch ==
    /\ ppc = "decided"
    /\ IF pl.needsProcessing
       THEN ppc' = "parse" /\ pl' = pl
       ELSE ppc' = "done" /\ pl' = [pl EXCEPT !.exitCode = 0]
    /\ UNCHANGED <<fs, dpc, dl, hist, budget, fn>>

\* processCSV: read, parse, take the first column of the first record, sort
ProcParse ==
    /\ ppc = "parse"
    /\ LET csvData == Parse(fs["raw"])
       IN  IF IsNull(csvData) \/ IsNull(FirstColumnName(Val(csvData)))
           THEN ppc' = "done" /\ pl' = [pl EXCEPT !.exitCode = 1,
                                                  !.failed = @ \cup {"parse"}]
           ELSE /\ ppc' = "writeSortedCsv"
                /\ pl' = [pl EXCEPT
                            !.csvData = SortCopy(Val(csvData)).csvData,
                            !.sortedCsvData = SortCopy(Val(csvData)).sortedCsvData]
    /\ UNCHANGED <<fs, dpc, dl, hist, budget, fn>>

\* processCSV: fs.writeFile(sortedCsvFile, sortedCsvContent)
ProcWriteSortedCsv ==
    /\ ppc = "writeSortedCsv"
    /\ \E outcome \in WriteOutcomes :
        LET w == WriteFile("sortedCsv", Stringify(pl.sortedCsvData), outcome)
        IN  /\ fs' = w.files
            /\ budget' = Spend(outcome)
            /\ ppc' = IF w.thrown THEN "done" ELSE "writeJson"
            /\ pl' = [pl EXCEPT
                       !.wrote = @ \cup {"sortedCsv"},
                       !.failed = IF outcome = "ok" THEN @ ELSE @ \cup {"sortedCsv"},
                       !.exitCode = IF w.thrown THEN 1 ELSE @]
    /\ UNCHANGED <<dpc, dl, hist, fn>>

\* a saveJsonFile of processCSV, and the statement after it
ProcSaveJson(name, content, next) ==
    \E outcome \in WriteOutcomes :
        LET w == SaveJsonFile(name, content, outcome)
        IN  /\ fs' = w.files
            /\ budget' = Spend(outcome)
            /\ ppc' = IF w.thrown THEN "done" ELSE next
            /\ pl' = [pl EXCEPT
                       !.wrote = @ \cup {name},
                       !.failed = IF outcome = "ok" THEN @ ELSE @ \cup {name},
                       !.metadataSaved = (name = "metadata" /\ outcome = "ok"),
                       !.exitCode = IF w.thrown THEN 1 ELSE @]

\* processCSV: saveJsonFile(jsonFile, csvData)
ProcWriteJson ==
    /\ ppc = "writeJson"
    /\ ProcSaveJson("json", JsonStringifyRows(pl.csvData), "writeSortedJson")
    /\ UNCHANGED <<dpc, dl, hist, fn>>

\* processCSV: saveJsonFile(sortedJsonFile, sortedCsvData)
ProcWriteSortedJson ==
    /\ ppc = "writeSortedJson"
    /\ ProcSaveJson("sortedJson", JsonStringifyRows(pl.sortedCsvData), "hash")
    /\ UNCHANGED <<dpc, dl, hist, fn>>

\* processCSV: calculateFileHash and statSync of the three files (either
\* throws for a file that is not there), then the metadata object
ProcHash ==
    /\ ppc = "hash"
    /\ IF \E n \in {"sortedCsv", "json", "sortedJson"} : fs[n] = Missing
       THEN ppc' = "done" /\ pl' = [pl EXCEPT !.exitCode = 1,
                                              !.failed = @ \cup {"hash"}]
       ELSE /\ ppc' = "writeMetadata"
            /\ pl' = [pl EXCEPT !.metadata =
                        Some(BuildMetadata(fs, Val(pl.originalCsvHash),
                                           pl.downloadMetadata, pl.csvData))]
    /\ UNCHANGED <<fs, dpc, dl, hist, budget, fn>>

\* processCSV: saveJsonFile(metadataFile, metadata)
ProcWriteMetadata ==
    /\ ppc = "writeMetadata"
    /\ ProcSaveJson("metadata", JsonStringifyObj(Val(pl.metadata)), "finish")
    /\ UNCHANGED <<dpc, dl, hist, fn>>

\* main: the listing of the files, and the end of main
ProcFinish ==
    /\ ppc = "finish"
    /\ ppc' = "done"
    /\ pl' = [pl EXCEPT !.exitCode = 0]
    /\ UNCHANGED <<fs, dpc, dl, hist, budget, fn>>

\* the process is gone
ProcExit ==
    /\ ppc = "done"
    /\ ppc' = "idle"
    /\ pl' = PlInit
    /\ hist' = [hist EXCEPT !.procExit = pl.exitCode,
                            !.procFailed = (pl.failed # {}),
                            !.clean = TRUE,
                            !.oneGone = FALSE]
    /\ UNCHANGED <<fs, dpc, dl, budget, fn>>

-----------------------------------------------------------------------------
(* The discovery run *)

Node(t, p, h, x) == [tag |-> t, parent |-> p, href |-> h, text |-> x]

href_root == <<"/", "f", "/", "a", "m", "a", "t", "e", "u", "r", ".", "c", "s", "v">>
href_abs == str_https \o <<"h", "/", "a", "m", "a", "t", "e", "u", "r", ".", "c", "s", "v">>
href_pdf == <<"/", "a", "m", "a", "t", "e", "u", "r", ".", "p", "d", "f">>
text_dl == <<" ", "d", "l", "\n">>
text_date == <<" ", "1", "2", " ", "M", "a", "y", " ">>

\* the link in the first cell of a row, the date in the second
PageRow ==
    <<Node("TABLE", 0, Null, <<>>), Node("TR", 1, Null, <<>>),
      Node("TD", 2, Null, <<>>), Node("A", 3, Some(href_root), text_dl),
      Node("TD", 2, Null, text_date)>>

\* an absolute link in a row whose second cell is blank
PageBlankCell ==
    <<Node("TR", 0, Null, <<>>), Node("TD", 1, Null, <<>>),
      Node("A", 2, Some(href_abs), <<"D", "L">>), Node("TD", 1, Null, <<" ">>)>>

\* no link to the file
PageNoLink ==
    <<Node("DIV", 0, Null, <<>>), Node("A", 1, Some(href_pdf), text_dl),
      Node("A", 1, Null, text_dl)>>

\* two links to the file
PageTwoLinks ==
    <<Node("TR", 0, Null, <<>>), Node("TD", 1, Null, <<>>),
      Node("A", 2, Some(href_root), text_dl), Node("TD", 1, Null, text_date),
      Node("A", 4, Some(href_abs), text_dl)>>

\* the pages the page server can answer with
Pages == <<PageRow, PageBlankCell, PageNoLink, PageTwoLinks>>

\* new Date().toLocaleDateString('en-GB', ...): the day of the run
Today == <<"2", " ", "N", "o", "v">>

\* uses what was extracted, date or not
UpdatedDateNoFallback(date) == IF IsNull(date) THEN <<>> ELSE Val(date)

\* main: extractUpdateDateFromHtmlTable(...) || new Date().toLocaleDateString(...)
UpdatedDate(date) == IF IsNull(date) \/ Val(date) = <<>> THEN Today ELSE Val(date)

DlInit ==
    [page |-> 0,
     csvLinkDetails |-> NoLink,
     updatedDate |-> <<>>,
     fullUrl |-> <<>>,
     previousHash |-> Null,
     downloadCalled |-> FALSE,
     overwritten |-> Missing,
     rawAtStart |-> Missing,
     failed |-> {},
     exitCode |-> -1]

\* scrape-and-download is started
StartDiscovery ==
    /\ Idle
    /\ budget.runs > 0
    /\ budget' = [budget EXCEPT !.runs = @ - 1]
    /\ dpc' = "fetch"
    /\ dl' = [DlInit EXCEPT !.rawAtStart = fs["raw"]]
    /\ UNCHANGED <<fs, ppc, pl, hist, fn>>

\* main: axios.get(OFCOM_URL) answers with a page
DiscFetch ==
    /\ dpc = "fetch"
    /\ \E p \in 1..Len(Pages) :
        /\ dl' = [dl EXCEPT !.page = p]
        /\ dpc' = "saveHtml"
    /\ UNCHANGED <<fs, ppc, pl, hist, budget, fn>>

\* main: axios.get(OFCOM_URL) rejects
DiscFetchFails ==
    /\ dpc = "fetch"
    /\ dl' = [dl EXCEPT !.failed = @ \cup {"fetch"}, !.exitCode = 1]
    /\ dpc' = "done"
    /\ UNCHANGED <<fs, ppc, pl, hist, budget, fn>>

\* main: fs.writeFile(htmlOutput, response.data): a failure is thrown
DiscSaveHtml ==
    /\ dpc = "saveHtml"
    /\ \E outcome \in WriteOutcomes :
        /\ budget' = Spend(outcome)
        /\ dpc' = IF outcome = "ok" THEN "find" ELSE "done"
        /\ dl' = [dl EXCEPT
                   !.failed = IF outcome = "ok" THEN @ ELSE @ \cup {"html"},
                   !.exitCode = IF outcome = "ok" THEN @ ELSE 1]
    /\ UNCHANGED <<fs, ppc, pl, hist, fn>>

\* main: findCsvLink, extractUpdateDateFromHtmlTable || today, buildAbsoluteOfcomUrl
DiscFind ==
    /\ dpc = "find"
    /\ LET doc == Pages[dl.page]
           csvLinkDetails == FindCsvLink(doc)
       IN  IF csvLinkDetails.kind # "ok"
           THEN /\ dpc' = "done"
                /\ dl' = [dl EXCEPT !.csvLinkDetails = csvLinkDetails,
                                    !.failed = @ \cup {csvLinkDetails.kind},
                                    !.exitCode = 1]
           ELSE LET date == ExtractUpdateDateFromHtmlTable(doc, csvLinkDetails.element)
                IN  /\ dpc' = "saveMetadata"
                    /\ dl' = [dl EXCEPT
                               !.csvLinkDetails = csvLinkDetails,
                               !.updatedDate = UpdatedDate(date),
                               !.fullUrl = BuildAbsoluteOfcomUrl(csvLinkDetails.href)]
    /\ UNCHANGED <<fs, ppc, pl, hist, budget, fn>>

\* the CsvDownloadMetadata object of main
DownloadMetadata(d) ==
    [url |-> d.fullUrl,
     linkText |-> d.csvLinkDetails.text,
     ofcomReportedLastUpdate |-> d.updatedDate]

\* main: saveJsonFile(downloadMetadataFile, downloadMetadata)
DiscSaveMetadata ==
    /\ dpc = "saveMetadata"
    /\ \E outcome \in WriteOutcomes :
        LET w == SaveJsonFile("downloadMetadata",
                              JsonStringifyObj(DownloadMetadata(dl)), outcome)
        IN  /\ fs' = w.files
            /\ budget' = Spend(outcome)
            /\ dpc' = IF w.thrown THEN "done" ELSE "previousHash"
            /\ dl' = [dl EXCEPT
                       !.failed = IF outcome = "ok" THEN @
                                  ELSE @ \cup {"downloadMetadata"},
                       !.exitCode = IF w.thrown THEN 1 ELSE @]
    /\ UNCHANGED <<ppc, pl, hist, fn>>

\* captures nothing
PreviousHashNone(f) == Null

\* main: previousFileExists, previousHash
PreviousHash(f) ==
    IF FileExistsAndNotEmpty(f["raw"]) THEN Some(CalculateFileHash(f["raw"]))
    ELSE Null

DiscPreviousHash ==
    /\ dpc = "previousHash"
    /\ dl' = [dl EXCEPT !.previousHash = PreviousHash(fs)]
    /\ dpc' = "download"
    /\ UNCHANGED <<fs, ppc, pl, hist, budget, fn>>

\* downloadFile: the request is answered and the body is piped to the file;
\* then main compares the hashes (logged only) and the downloaded file must
\* exist and hold something
DiscDownload ==
    /\ dpc = "download"
    /\ \E body \in UpstreamFiles :
        /\ fs' = [fs EXCEPT !["raw"] = body]
        /\ hist' = HistAfter(fs')
        /\ dl' = [dl EXCEPT
                   !.downloadCalled = TRUE,
                   !.overwritten = fs["raw"],
                   !.exitCode = IF FileExistsAndNotEmpty(body) THEN 0 ELSE 1,
                   !.failed = IF FileExistsAndNotEmpty(body) THEN @
                              ELSE @ \cup {"emptyDownload"}]
    /\ dpc' = "done"
    /\ UNCHANGED <<ppc, pl, budget, fn>>

\* downloadFile: axios rejects (a timeout, an error status): nothing is written
DiscDownloadRequestFails ==
    /\ dpc = "download"
    /\ dl' = [dl EXCEPT !.downloadCalled = TRUE, !.overwritten = fs["raw"],
                        !.failed = @ \cup {"download"}, !.exitCode = 1]
    /\ dpc' = "done"
    /\ UNCHANGED <<fs, ppc, pl, hist, budget, fn>>

\* downloadFile: the writer emits 'error' and the promise is rejected
DiscDownloadWriterFails ==
    /\ dpc = "download"
    /\ \E outcome \in WriteOutcomes \ {"ok"} :
        /\ fs' = [fs EXCEPT !["raw"] = WriteResult(@, Empty, outcome)]
        /\ budget' = Spend(outcome)
        /\ hist' = HistAfter(fs')
    /\ dl' = [dl EXCEPT !.downloadCalled = TRUE, !.overwritten = fs["raw"],
                        !.failed = @ \cup {"raw"}, !.exitCode = 1]
    /\ dpc' = "done"
    /\ UNCHANGED <<ppc, pl, fn>>

\* the process is gone
DiscExit ==
    /\ dpc = "done"
    /\ dpc' = "idle"
    /\ dl' = DlInit
    /\ UNCHANGED <<fs, ppc, pl, hist, budget, fn>>

-----------------------------------------------------------------------------
(* Between the runs: a file of the directory is removed, emptied or        *)
(* overwritten with bytes that parse as nothing; the raw file is cut down  *)
(* to its header.                                                          *)

TamperResults(n) ==
    (IF n = "raw" THEN {Csv(<<>>)} ELSE {Missing})
    \cup (IF n \in DerivedFiles THEN {Empty} ELSE {})
    \cup (IF n \in {"metadata", "downloadMetadata"} THEN {Garbage} ELSE {})
    \cup (IF n = "metadata" THEN {JsonObj([recordCount |-> 0])} ELSE {})

Tamper ==
    /\ Idle
    /\ budget.faults > 0
    /\ \E n \in TrackedFiles \cup {"downloadMetadata"} :
        \E c \in TamperResults(n) :
            /\ c # fs[n]
            /\ fs' = [fs EXCEPT ![n] = c]
            /\ hist' = [hist EXCEPT
                         !.clean = IF n \in TrackedFiles THEN FALSE ELSE @,
                         !.oneGone =
                            IF n \in TrackedFiles
                            THEN /\ hist.procExit = 0
                                 /\ hist.clean
                                 /\ n \in DerivedFiles
                                 /\ c \in {Missing, Empty}
                                 /\ FileExistsAndNotEmpty(fs[n])
                            ELSE @]
    /\ budget' = [budget EXCEPT !.faults = @ - 1]
    /\ UNCHANGED <<ppc, pl, dpc, dl, fn>>

-----------------------------------------------------------------------------

FsInit == [n \in FileNames |-> Missing]

HistInit ==
    [procExit |-> -1, procFailed |-> FALSE, clean |-> FALSE, oneGone |-> FALSE]

FnIdle == [op |-> "none"]

Init ==
    /\ fs = FsInit
    /\ ppc = "idle"
    /\ pl = PlInit
    /\ dpc = "idle"
    /\ dl = DlInit
    /\ hist = HistInit
    /\ budget = [runs |-> MaxRuns, faults |-> MaxFaults]
    /\ fn = FnIdle

Next ==
    \/ StartProcess
    \/ ProcCheckRaw
    \/ ProcDecide
    \/ ProcBranch
    \/ ProcParse
    \/ ProcWriteSortedCsv
    \/ ProcWriteJson
    \/ ProcWriteSortedJson
    \/ ProcHash
    \/ ProcWriteMetadata
    \/ ProcFinish
    \/ ProcExit
    \/ StartDiscovery
    \/ DiscFetch
    \/ DiscFetchFails
    \/ DiscSaveHtml
    \/ DiscFind
    \/ DiscSaveMetadata
    \/ DiscPreviousHash
    \/ DiscDownload
    \/ DiscDownloadRequestFails
    \/ DiscDownloadWriterFails
    \/ DiscExit
    \/ Tamper

Spec == Init /\ [][Next]_vars

\* the steps of a processing run: local computation and file system calls,
\* which return
ProcStep ==
    \/ ProcCheckRaw
    \/ ProcDecide
    \/ ProcBranch
    \/ ProcParse
    \/ ProcWriteSortedCsv
    \/ ProcWriteJson
    \/ ProcWriteSortedJson
    \/ ProcHash
    \/ ProcWriteMetadata
    \/ ProcFinish
    \/ ProcExit

\* the steps of a discovery run that return by themselves or within the
\* timeout of downloadFile. axios.get(OFCOM_URL) is not among them: it is
\* called without a timeout, and returns only when the page server answers
\* or the connection breaks.
DiscStepAfterFetch ==
    \/ DiscSaveHtml
    \/ DiscFind
    \/ DiscSaveMetadata
    \/ DiscPreviousHash
    \/ DiscDownload
    \/ DiscDownloadRequestFails
    \/ DiscDownloadWriterFails
    \/ DiscExit

\* the runs under a scheduler that lets a started process take its steps
LiveSpec == Spec /\ WF_vars(ProcStep) /\ WF_vars(DiscStepAfterFetch)

-----------------------------------------------------------------------------
(* The functions of the discovery stage, each applied on its own to        *)
(* arguments drawn from bounded sets.                                      *)

\* nothing but the function's argument and result changes
Quiet ==
    /\ fs = FsInit
    /\ ppc = "idle"
    /\ pl = PlInit
    /\ dpc = "idle"
    /\ dl = DlInit
    /\ hist = HistInit
    /\ budget = [runs |-> 0, faults |-> 0]

QuietNext == UNCHANGED <<fs, ppc, pl, dpc, dl, hist, budget>>

(* findCsvLink *)

href_csv_only == <<"x", ".", "c", "s", "v">>
href_mixed == <<"/", "A", "m", "a", "T", "e", "u", "r", ".", "c", "S", "V">>
href_reversed == <<".", "c", "s", "v", "a", "m", "a", "t", "e", "u", "r">>

LinkHrefs ==
    {Null, Some(<<>>), Some(href_root), Some(href_mixed), Some(href_pdf),
     Some(href_csv_only), Some(href_reversed)}

LinkTexts == {<<>>, text_dl, <<"d", " ", "l">>}

\* the elements a page is made of here: anchors, and spans that hold text
\* (a span may lie inside the element before it)
LinkElements(i) ==
    {Node("A", p, h, x) : p \in {0}, h \in LinkHrefs, x \in LinkTexts}
    \cup {Node("SPAN", p, Null, x) : p \in {0, i - 1}, x \in LinkTexts}

RECURSIVE LinkDocs(_)
LinkDocs(n) ==
    IF n = 0 THEN {<<>>}
    ELSE LET shorter == LinkDocs(n - 1)
         IN  shorter
             \cup {Append(d, e) : d \in {x \in shorter : Len(x) = n - 1},
                                  e \in LinkElements(n)}

LinkInit ==
    /\ Quiet
    /\ \E d \in LinkDocs(MaxElements) :
        fn = [op |-> "findCsvLink", doc |-> d, done |-> FALSE, res |-> NoLink]

ApplyFindCsvLink ==
    /\ fn.op = "findCsvLink"
    /\ ~fn.done
    /\ fn' = [fn EXCEPT !.res = FindCsvLink(fn.doc), !.done = TRUE]
    /\ QuietNext

SpecLink == LinkInit /\ [][ApplyFindCsvLink]_vars

(* buildAbsoluteOfcomUrl *)

RECURSIVE Paths(_)
Paths(n) ==
    IF n = 0 THEN {<<>>}
    ELSE LET shorter == Paths(n - 1)
         IN  shorter \cup {Append(q, c) : q \in shorter, c \in {"a", "/"}}

UrlPrefixes ==
    {<<>>, str_http, str_https, <<"H", "T", "T", "P", ":", "/", "/">>,
     <<"h", "t", "t", "p", ":", "/">>, <<"f", "t", "p", ":", "/", "/">>}

Urls == {pre \o q : pre \in UrlPrefixes, q \in Paths(MaxPath)}

UrlInit ==
    /\ Quiet
    /\ \E u \in Urls :
        fn = [op |-> "buildAbsoluteOfcomUrl", url |-> u, done |-> FALSE, res |-> <<>>]

ApplyBuildAbsoluteOfcomUrl ==
    /\ fn.op = "buildAbsoluteOfcomUrl"
    /\ ~fn.done
    /\ fn' = [fn EXCEPT !.res = BuildAbsoluteOfcomUrl(fn.url), !.done = TRUE]
    /\ QuietNext

SpecUrl == UrlInit /\ [][ApplyBuildAbsoluteOfcomUrl]_vars

(* extractUpdateDateFromHtmlTable, its loop one iteration at a time *)

DateTags == {"A", "TR", "TD", "DIV"}

DateTexts(t) ==
    IF t = "TD" THEN {<<>>, <<" ">>, <<" ", "7", "\n">>}
    ELSE IF t = "A" THEN {<<"x">>}
    ELSE {<<>>}

\* the element and its ancestors: where the next element in document order
\* can hang
RECURSIVE Chain(_, _)
Chain(doc, n) == IF n = 0 THEN {} ELSE {n} \cup Chain(doc, Parent(doc, n))

\* the trees of up to n elements, in document order
RECURSIVE Trees(_)
Trees(n) ==
    IF n = 1
    THEN {<<Node(t, 0, Null, <<>>)>> : t \in DateTags}
    ELSE LET shorter == Trees(n - 1)
             longest == {y \in shorter : Len(y) = n - 1}
             AllTexts == UNION {DateTexts(t) : t \in DateTags}
             grown ==
                {c \in longest \X DateTags \X (1..(n - 1)) \X AllTexts :
                    c[3] \in Chain(c[1], n - 1) /\ c[4] \in DateTexts(c[2])}
         IN  shorter \cup {Append(c[1], Node(c[2], c[3], Null, c[4])) : c \in grown}

DateInit ==
    /\ Quiet
    /\ \E d \in Trees(MaxNodes) :
        \E a \in {i \in 1..Len(d) : Tag(d, i) = "A"} :
            fn = [op |-> "extractUpdateDateFromHtmlTable", doc |-> d, link |-> a,
                  walk |-> WalkInit(a), pc |-> "walk", res |-> Null]

\* one iteration of the while loop
DateWalkStep ==
    /\ fn.op = "extractUpdateDateFromHtmlTable"
    /\ fn.pc = "walk"
    /\ WalkContinue(fn.doc, fn.walk)
    /\ fn' = [fn EXCEPT !.walk = WalkStep(fn.doc, fn.walk)]
    /\ QuietNext

\* the loop is left and the row, if any, is read
DateRead ==
    /\ fn.op = "extractUpdateDateFromHtmlTable"
    /\ fn.pc = "walk"
    /\ ~WalkContinue(fn.doc, fn.walk)
    /\ fn' = [fn EXCEPT !.res = DateOfRow(fn.doc, fn.walk.tableRow), !.pc = "done"]
    /\ QuietNext

DateNext == DateWalkStep \/ DateRead

SpecDate == DateInit /\ [][DateNext]_vars

(* the sort of processCSV *)

\* first-column values: absent, empty, and text in either case
SortKeys ==
    {Undefined, <<>>, <<"a">>, <<"A">>, <<"b">>, <<"2">>, <<"a", "B">>}

\* the record sets of up to n records; id is the place in the file
RECURSIVE KeyLists(_)
KeyLists(n) ==
    IF n = 0 THEN {<<>>}
    ELSE LET shorter == KeyLists(n - 1)
             longest == {y \in shorter : Len(y) = n - 1}
         IN  shorter \cup {Append(c[1], c[2]) : c \in longest \X SortKeys}

SortInit ==
    /\ Quiet
    /\ \E ks \in KeyLists(MaxRows) :
        fn = [op |-> "sort",
              rows |-> [i \in 1..Len(ks) |-> Row(ks[i], i)],
              done |-> FALSE,
              res |-> [csvData |-> <<>>, sortedCsvData |-> <<>>]]

ApplySort ==
    /\ fn.op = "sort"
    /\ ~fn.done
    /\ fn' = [fn EXCEPT !.done = TRUE, !.res = SortCopy(fn.rows)]
    /\ QuietNext

SpecSort == SortInit /\ [][ApplySort]_vars

(* The selection of the PowerShell discovery script *)

str_callsign == <<"c", "a", "l", "l", "s", "i", "g", "n">>

\* $x -match "callsign": a search without regard to case; false for $null
MatchCallsign(x) == ~IsNull(x) /\ Includes(ToLowerCase(Val(x)), str_callsign)

\* goes on after a candidate with "callsign" and takes the last such
RECURSIVE BestMatchLoopNoBreak(_, _, _)
BestMatchLoopNoBreak(amateurCsvLinks, i, bestMatch) ==
    IF i > Len(amateurCsvLinks) THEN bestMatch
    ELSE LET link == amateurCsvLinks[i]
         IN  IF MatchCallsign(Some(link.Href)) \/ MatchCallsign(link.Text)
             THEN BestMatchLoopNoBreak(amateurCsvLinks, i + 1, i)
             ELSE BestMatchLoopNoBreak(amateurCsvLinks, i + 1,
                                       IF bestMatch = 0 THEN i ELSE bestMatch)

\* foreach ($link in $amateurCsvLinks) { ... }: from candidate i on, with
\* $bestMatch as it is (0 for $null)
RECURSIVE BestMatchLoop(_, _, _)
BestMatchLoop(amateurCsvLinks, i, bestMatch) ==
    IF i > Len(amateurCsvLinks) THEN bestMatch
    ELSE LET link == amateurCsvLinks[i]
         IN  IF MatchCallsign(Some(link.Href)) \/ MatchCallsign(link.Text)
             THEN i
             ELSE BestMatchLoop(amateurCsvLinks, i + 1,
                                IF bestMatch = 0 THEN i ELSE bestMatch)

\* the script from the candidates on: the candidate it goes on with and
\* downloads, or exit 1 before any download
LegacySelect(amateurCsvLinks) ==
    IF Len(amateurCsvLinks) > 0
    THEN LET bestMatch == BestMatchLoop(amateurCsvLinks, 1, 0)
         IN  IF bestMatch # 0
             THEN [bestMatch |-> bestMatch, exited |-> FALSE, exitCode |-> -1,
                   downloads |-> TRUE]
             ELSE [bestMatch |-> 0, exited |-> TRUE, exitCode |-> 1,
                   downloads |-> FALSE]
    ELSE [bestMatch |-> 0, exited |-> TRUE, exitCode |-> 1, downloads |-> FALSE]

href_callsign ==
    <<"/", "a", "m", "a", "t", "e", "u", "r", "-">> \o str_callsign
        \o <<".", "c", "s", "v">>

text_callsigns == <<"C", "a", "l", "l", "S", "i", "g", "n", "s">>

\* the candidates: href with and without the word, text with the word in
\* mixed case, without it, and no text
Candidates ==
    {[Href |-> h, Text |-> x] :
        h \in {href_root, href_callsign},
        x \in {Null, Some(text_dl), Some(text_callsigns)}}

RECURSIVE CandidateLists(_)
CandidateLists(n) ==
    IF n = 0 THEN {<<>>}
    ELSE LET shorter == CandidateLists(n - 1)
             longest == {y \in shorter : Len(y) = n - 1}
         IN  shorter \cup {Append(c[1], c[2]) : c \in longest \X Candidates}

LegacyInit ==
    /\ Quiet
    /\ \E links \in CandidateLists(MaxCandidates) :
        fn = [op |-> "legacySelect", links |-> links, done |-> FALSE,
              res |-> [bestMatch |-> 0, exited |-> FALSE, exitCode |-> -1,
                       downloads |-> FALSE]]

ApplyLegacySelect ==
    /\ fn.op = "legacySelect"
    /\ ~fn.done
    /\ fn' = [fn EXCEPT !.done = TRUE, !.res = LegacySelect(fn.links)]
    /\ QuietNext

SpecLegacy == LegacyInit /\ [][ApplyLegacySelect]_vars

-----------------------------------------------------------------------------
(* Properties *)

\* s contains sub when letter case is ignored
ContainsIgnoringCase(s, sub) ==
    \E k \in 0..(Len(s) - Len(sub)) :
        \A j \in 1..Len(sub) : LowerChar(s[k + j]) = LowerChar(sub[j])

\* the anchors of a page whose href names the file
MatchingAnchors(doc) ==
    {i \in 1..Len(doc) :
        /\ Tag(doc, i) = "A"
        /\ ~IsNull(doc[i].href)
        /\ ContainsIgnoringCase(Val(doc[i].href), str_amateur)
        /\ ContainsIgnoringCase(Val(doc[i].href), str_csv)}

\* t is full without the white space at its two ends
IsTrimOf(t, full) ==
    \E i \in 1..(Len(full) + 1) :
        \E j \in 0..Len(full) :
            /\ t = SubSeq(full, i, j)
            /\ \A k \in 1..Len(full) : (k < i \/ k > j) => full[k] \in WhiteSpace
            /\ t # <<>> => (t[1] \notin WhiteSpace /\ t[Len(t)] \notin WhiteSpace)

\* the digest of a file's content
Digest(c) == <<"sha256", c>>

HoldsSomething(c) == c \notin {Missing, Empty}

\* the metadata file holds an object that records a digest of the raw file
RecordsHash(c) == c[1] = "jsonObj" /\ "originalCsvHash" \in DOMAIN c[2]

(* C1: at the decision of the processing stage, with a raw file that holds *)
(* something, reprocessing is skipped exactly when the metadata record     *)
(* exists and is readable, the digest it records is that of the raw file,  *)
(* and the four derived files all exist and hold something; after the      *)
(* decision the run reprocesses exactly when it was not skipped.           *)
C1_SkipDecision ==
    /\ ppc = "decided" =>
        /\ HoldsSomething(fs["raw"])
        /\ ~pl.needsProcessing <=>
            /\ RecordsHash(fs["metadata"])
            /\ fs["metadata"][2].originalCsvHash = Digest(fs["raw"])
            /\ \A n \in DerivedFiles : HoldsSomething(fs[n])
    /\ ppc \in {"parse", "writeSortedCsv", "writeJson", "writeSortedJson",
                "hash", "writeMetadata", "finish"} => pl.needsProcessing

\* a decision to skip
C1_Witness == ppc = "decided" /\ ~pl.needsProcessing

\* a decision to reprocess although the recorded digest is that of the raw file
C1_WitnessDerivedGone ==
    /\ ppc = "decided"
    /\ RecordsHash(fs["metadata"])
    /\ fs["metadata"][2].originalCsvHash = Digest(fs["raw"])
    /\ pl.needsProcessing

(* C2: findCsvLink succeeds exactly when one anchor has an href that       *)
(* contains "amateur" and ".csv", letter case ignored; it then returns     *)
(* that anchor, its href as it is and its text trimmed; with no such       *)
(* anchor it fails as not found, with two or more as ambiguous, and then   *)
(* returns none of the candidates.                                         *)
C2_SingleMatch ==
    (fn.op = "findCsvLink" /\ fn.done) =>
        LET m == MatchingAnchors(fn.doc)
        IN  /\ fn.res.kind = "ok" <=> Cardinality(m) = 1
            /\ Cardinality(m) = 1 =>
                \E i \in m :
                    /\ fn.res.element = i
                    /\ fn.res.href = Val(fn.doc[i].href)
                    /\ IsTrimOf(fn.res.text, TextContent(fn.doc, i))
            /\ Cardinality(m) = 0 => fn.res = [NoLink EXCEPT !.kind = "NotFound"]
            /\ Cardinality(m) > 1 => fn.res = [NoLink EXCEPT !.kind = "Ambiguous"]

\* one match among two elements, in mixed case, with text to trim
C2_Witness ==
    /\ fn.op = "findCsvLink"
    /\ fn.done
    /\ fn.res.kind = "ok"
    /\ Len(fn.doc) = 2
    /\ fn.res.href # ToLowerCase(fn.res.href)
    /\ fn.res.text # TextContent(fn.doc, fn.res.element)

(* C3: a processing run that follows a processing run which exited 0, with *)
(* no file changed in between, writes no file.                             *)
C3_Idempotence == (ppc = "done" /\ pl.repeated) => pl.wrote = {}

\* the same, when no write of the first run failed
C3_IdempotenceNoFault ==
    (ppc = "done" /\ pl.repeated /\ ~hist.procFailed) => pl.wrote = {}

\* a second run in a row that has taken its decision
C3_Witness == ppc = "done" /\ pl.repeated /\ ~hist.procFailed /\ pl.exitCode = 0

\* what a run from nothing makes of a raw file of records
FromScratch(raw) ==
    LET sorted == Csv(SortRows(raw[2]))
        json == JsonRows(raw[2])
        sortedJson == JsonRows(SortRows(raw[2]))
    IN  [sortedCsv |-> sorted, json |-> json, sortedJson |-> sortedJson,
         sortedCsvHash |-> Digest(sorted), originalJsonHash |-> Digest(json),
         sortedJsonHash |-> Digest(sortedJson)]

Regenerated ==
    /\ fs["raw"][1] = "csv"
    /\ LET scratch == FromScratch(fs["raw"])
       IN  /\ fs["sortedCsv"] = scratch.sortedCsv
           /\ fs["json"] = scratch.json
           /\ fs["sortedJson"] = scratch.sortedJson
           /\ RecordsHash(fs["metadata"])
           /\ fs["metadata"][2].originalCsvHash = Digest(fs["raw"])
           /\ fs["metadata"][2].sortedCsvHash = scratch.sortedCsvHash
           /\ fs["metadata"][2].originalJsonHash = scratch.originalJsonHash
           /\ fs["metadata"][2].sortedJsonHash = scratch.sortedJsonHash

(* C4: after a processing run that exited 0, when one derived file is      *)
(* removed or emptied and nothing else changes, the next processing run    *)
(* reprocesses, and when it has exited 0 the derived files are those of a  *)
(* run from nothing on the same raw file, with their digests recorded.     *)
C4_SelfHealing ==
    /\ (ppc = "decided" /\ pl.healing) => pl.needsProcessing
    /\ (ppc = "done" /\ pl.healing /\ pl.exitCode = 0) => Regenerated

\* the same, when no write of the healing run failed
C4_SelfHealingNoFault ==
    /\ (ppc = "decided" /\ pl.healing) => pl.needsProcessing
    /\ (ppc = "done" /\ pl.healing /\ pl.failed = {}) =>
            (pl.exitCode = 0 /\ Regenerated)

C4_Witness == ppc = "done" /\ pl.healing /\ pl.failed = {}

(* C5: when the processing stage has written the metadata record, the      *)
(* originalCsvHash in the file is the digest of the raw file on disk.      *)
C5_HashOfCurrentRaw ==
    (ppc = "finish" /\ pl.metadataSaved) =>
        /\ RecordsHash(fs["metadata"])
        /\ fs["metadata"][2].originalCsvHash = Digest(fs["raw"])

\* a record written over the record of an earlier raw file
C5_Witness ==
    /\ ppc = "finish"
    /\ pl.metadataSaved
    /\ hist.procExit = 0
    /\ fs["raw"] = Csv(RowsA)

\* page by page: the anchors that name the file
PageAnchors == [p \in 1..Len(Pages) |-> MatchingAnchors(Pages[p])]

(* C6: a discovery run whose page has no matching link, or two or more,    *)
(* fails with the error of its case and exit code 1, does not call         *)
(* downloadFile and leaves the raw file as it was.                         *)
C6_NoDownloadWithoutSingleLink ==
    (dl.page # 0 /\ Cardinality(PageAnchors[dl.page]) # 1) =>
        /\ dpc \in {"saveHtml", "find", "done"}
        /\ ~dl.downloadCalled
        /\ fs["raw"] = dl.rawAtStart
        /\ dpc = "done" =>
            /\ dl.exitCode = 1
            /\ "html" \notin dl.failed =>
                dl.csvLinkDetails.kind =
                    IF PageAnchors[dl.page] = {} THEN "NotFound"
                    ELSE "Ambiguous"

\* an ambiguous page, met when a raw file is there
C6_Witness ==
    /\ dpc = "done"
    /\ dl.csvLinkDetails.kind = "Ambiguous"
    /\ HoldsSomething(fs["raw"])

(* C7: a discovery run that has found its one link does not end without    *)
(* calling downloadFile, whatever the raw file is; and when downloadFile   *)
(* is called, the digest of the file it replaces has been captured if that *)
(* file held something (and nothing has been captured if not).             *)
C7_AlwaysDownload ==
    /\ (dl.csvLinkDetails.kind = "ok" /\ dpc = "done") => dl.downloadCalled
    /\ dl.downloadCalled =>
        /\ dl.csvLinkDetails.kind = "ok"
        /\ dl.previousHash =
            IF HoldsSomething(dl.overwritten) THEN Some(Digest(dl.overwritten))
            ELSE Null

\* a download of the content that was already there
C7_Witness ==
    /\ dpc = "done"
    /\ dl.downloadCalled
    /\ dl.exitCode = 0
    /\ fs["raw"] = dl.overwritten

(* C8: a stage that has ended has exit code 0 exactly when nothing failed  *)
(* in the run: no missing or empty file, no link error, no parse error, no *)
(* failed fetch, download or write.                                        *)
C8_ExitCodes ==
    /\ ppc = "done" => (pl.exitCode = 0 <=> pl.failed = {})
    /\ dpc = "done" => (dl.exitCode = 0 <=> dl.failed = {})

\* the failures that are thrown do end the run with exit code 1
C8_ThrownFailures ==
    /\ ppc = "done" =>
        /\ pl.exitCode \in {0, 1}
        /\ pl.failed \cap {"noRawFile", "parse", "hash", "sortedCsv"} # {}
            => pl.exitCode = 1
        /\ pl.failed = {} => pl.exitCode = 0
    /\ dpc = "done" =>
        /\ dl.exitCode \in {0, 1}
        /\ dl.failed \ {"downloadMetadata"} # {} => dl.exitCode = 1
        /\ dl.failed = {} => dl.exitCode = 0

HasHttpScheme(url) ==
    \/ Len(url) >= 7 /\ SubSeq(url, 1, 7) = str_http
    \/ Len(url) >= 8 /\ SubSeq(url, 1, 8) = str_https

\* a path from the root of the site: one leading separator
RootRelative(url) ==
    /\ url # <<>>
    /\ url[1] = "/"
    /\ Len(url) >= 2 => url[2] # "/"

\* a path with no leading separator
BareRelative(url) == ~HasHttpScheme(url) /\ (url = <<>> \/ url[1] # "/")

(* C9: buildAbsoluteOfcomUrl returns an href that begins with http:// or   *)
(* https:// as it is; for a root-relative href (one leading "/") and for a *)
(* bare-relative href (no leading "/") it returns the base origin, one "/" *)
(* and the path, so that one separator stands between origin and path.     *)
C9_UrlNormalization ==
    (fn.op = "buildAbsoluteOfcomUrl" /\ fn.done) =>
        /\ HasHttpScheme(fn.url) => fn.res = fn.url
        /\ RootRelative(fn.url) =>
            fn.res = OFCOM_BASE_URL \o <<"/">> \o Tail(fn.url)
        /\ BareRelative(fn.url) =>
            fn.res = OFCOM_BASE_URL \o <<"/">> \o fn.url
        /\ (RootRelative(fn.url) \/ BareRelative(fn.url)) =>
            /\ fn.res[Len(OFCOM_BASE_URL) + 1] = "/"
            /\ Len(fn.res) > Len(OFCOM_BASE_URL) + 1 =>
                fn.res[Len(OFCOM_BASE_URL) + 2] # "/"

\* a root-relative href of more than one segment
C9_Witness ==
    /\ fn.op = "buildAbsoluteOfcomUrl"
    /\ fn.done
    /\ RootRelative(fn.url)
    /\ Len(fn.url) = 3

\* the nearest ancestor row of the link, 0 when there is none
NearestRow(doc, link) ==
    LET rows == {a \in 1..Len(doc) : Tag(doc, a) = "TR" /\ IsAncestor(doc, a, link)}
    IN  IF rows = {} THEN 0
        ELSE CHOOSE r \in rows : \A q \in rows : q <= r

\* the td elements inside the row
CellsOf(doc, row) ==
    {c \in 1..Len(doc) : Tag(doc, c) = "TD" /\ IsAncestor(doc, row, c)}

\* the second of them in document order
SecondCell(doc, row) ==
    CHOOSE c \in CellsOf(doc, row) :
        Cardinality({b \in CellsOf(doc, row) : b < c}) = 1

WalkEnded ==
    /\ fn.walk.steps <= Len(fn.doc)
    /\ fn.pc = "done" =>
        \/ fn.walk.element = 0
        \/ Tag(fn.doc, fn.walk.element) = "TR"

(* C10 as it reads: the date is the trimmed text of the second cell of the *)
(* nearest ancestor row whenever that row has two cells.                   *)
C10_DateAsClaimed ==
    (fn.op = "extractUpdateDateFromHtmlTable" /\ fn.pc = "done") =>
        LET row == NearestRow(fn.doc, fn.link)
        IN  /\ WalkEnded
            /\ IF row # 0 /\ Cardinality(CellsOf(fn.doc, row)) >= 2
               THEN /\ ~IsNull(fn.res)
                    /\ IsTrimOf(Val(fn.res),
                                TextContent(fn.doc, SecondCell(fn.doc, row)))
               ELSE IsNull(fn.res)

(* C10, amended: extractUpdateDateFromHtmlTable walks up to the nearest    *)
(* ancestor row; when that row exists, holds two td elements or more and   *)
(* the trimmed text of the second of them (in document order) is not       *)
(* empty, that text is returned; in every other case no date is returned;  *)
(* the walk ends at a row or at the root, in no more steps than the        *)
(* document has elements.                                                  *)
C10_DateExtraction ==
    /\ fn.op = "extractUpdateDateFromHtmlTable" => WalkEnded
    /\ (fn.op = "extractUpdateDateFromHtmlTable" /\ fn.pc = "done") =>
        LET row == NearestRow(fn.doc, fn.link)
            hasDate ==
                /\ row # 0
                /\ Cardinality(CellsOf(fn.doc, row)) >= 2
                /\ \E k \in 1..Len(TextContent(fn.doc, SecondCell(fn.doc, row))) :
                    TextContent(fn.doc, SecondCell(fn.doc, row))[k] \notin WhiteSpace
        IN  IF hasDate
            THEN /\ ~IsNull(fn.res)
                 /\ Val(fn.res) # <<>>
                 /\ IsTrimOf(Val(fn.res),
                             TextContent(fn.doc, SecondCell(fn.doc, row)))
            ELSE IsNull(fn.res)

\* a date found two steps up, in a row that is inside another row
C10_Witness ==
    /\ fn.op = "extractUpdateDateFromHtmlTable"
    /\ fn.pc = "done"
    /\ ~IsNull(fn.res)
    /\ fn.walk.steps = 2

\* a metadata file that is there and cannot be used
Corrupt(c) ==
    \/ c \in {Empty, Garbage}
    \/ c[1] = "jsonObj" /\ "originalCsvHash" \notin DOMAIN c[2]

(* C11: a metadata file that exists and is not valid JSON, is empty or has *)
(* no hash field does not abort the processing run: the decision is to     *)
(* reprocess and nothing has failed by then; and when nothing else fails   *)
(* in the run, all four derived files are written, the run exits 0 and the *)
(* metadata file holds a new record with the digest of the raw file.       *)
C11_CorruptMetadataNotFatal ==
    /\ (ppc = "decided" /\ Corrupt(fs["metadata"])) =>
        /\ pl.needsProcessing
        /\ pl.failed = {}
        /\ pl.exitCode = -1
    /\ (ppc = "done" /\ Corrupt(pl.atStart["metadata"])) =>
        /\ pl.failed \cap {"noRawFile", "parse"} = {} => pl.wrote # {}
        /\ pl.failed = {} =>
            /\ pl.exitCode = 0
            /\ pl.wrote = DerivedFiles
            /\ RecordsHash(fs["metadata"])
            /\ fs["metadata"][2].originalCsvHash = Digest(fs["raw"])

\* a run that began with a corrupt record, although the other derived files
\* were there, and has written a new one
C11_Witness ==
    /\ ppc = "done"
    /\ Corrupt(pl.atStart["metadata"])
    /\ \A n \in DerivedFiles \ {"metadata"} : HoldsSomething(pl.atStart[n])
    /\ pl.exitCode = 0
    /\ RecordsHash(fs["metadata"])

\* the sort key of a record: the first column, absent read as empty, in
\* lower case
LowerKey(r) ==
    LET k == IF r.key = Undefined THEN <<>> ELSE r.key
    IN  [i \in 1..Len(k) |-> LowerChar(k[i])]

\* a comes before b, or with it, in the order of the collation
KeyLeq(a, b) ==
    \/ /\ Len(a) <= Len(b)
       /\ \A k \in 1..Len(a) : a[k] = b[k]
    \/ \E k \in 1..Len(a) :
        /\ k <= Len(b)
        /\ \A j \in 1..(k - 1) : a[j] = b[j]
        /\ Rank(a[k]) < Rank(b[k])

(* C12: the sorted collection is a permutation of the parsed records, in   *)
(* the order of the first column compared without regard to case, an       *)
(* absent value counting as the empty string; records with equal keys keep *)
(* the order they had; the parsed collection itself keeps its order.       *)
C12_Sorting ==
    (fn.op = "sort" /\ fn.done) =>
        LET sorted == fn.res.sortedCsvData
        IN  /\ Len(sorted) = Len(fn.rows)
            /\ \A i \in 1..Len(fn.rows) : \E j \in 1..Len(sorted) : sorted[j] = fn.rows[i]
            /\ \A i, j \in 1..Len(sorted) :
                i < j =>
                    /\ KeyLeq(LowerKey(sorted[i]), LowerKey(sorted[j]))
                    /\ LowerKey(sorted[i]) = LowerKey(sorted[j]) =>
                        sorted[i].id < sorted[j].id
            /\ fn.res.csvData = fn.rows

\* three records out of order, two of them with keys that differ in case only
C12_Witness ==
    /\ fn.op = "sort"
    /\ fn.done
    /\ Len(fn.rows) = 3
    /\ fn.res.sortedCsvData # fn.rows
    /\ \E i, j \in 1..3 :
        /\ i < j
        /\ fn.rows[i].key # fn.rows[j].key
        /\ LowerKey(fn.rows[i]) = LowerKey(fn.rows[j])

(* C13: every discovery run terminates: once started it reaches its exit, *)
(* also when the page server or the file server never answers.             *)
C13_DiscoveryTerminates == (dpc = "fetch") ~> (dpc = "done")

\* once the page has arrived, the run does reach its exit
C13_TerminatesAfterFetch == (dpc = "saveHtml") ~> (dpc = "done")

\* a processing run reaches its exit
C13_ProcessingTerminates == (ppc = "checkRaw") ~> (ppc = "done")

\* the page shows a date for the link: the second cell of the nearest row
\* around it holds more than white space
ShowsDate(doc, link) ==
    LET row == NearestRow(doc, link)
    IN  /\ row # 0
        /\ Cardinality(CellsOf(doc, row)) >= 2
        /\ \E k \in 1..Len(TextContent(doc, SecondCell(doc, row))) :
            TextContent(doc, SecondCell(doc, row))[k] \notin WhiteSpace

\* page by page, for a page with one such anchor: the text of the cell that
\* shows the date of the link, or nothing
PageDateCell ==
    [p \in 1..Len(Pages) |->
        IF Cardinality(PageAnchors[p]) # 1 THEN Null
        ELSE LET link == CHOOSE i \in PageAnchors[p] : TRUE
             IN  IF ShowsDate(Pages[p], link)
                 THEN Some(TextContent(Pages[p],
                                       SecondCell(Pages[p], NearestRow(Pages[p], link))))
                 ELSE Null]

(* C14: for a page with one matching link the discovery run goes on to the *)
(* download whether or not the page shows a date for the link, and the     *)
(* download metadata it writes carries a date that is not empty: the date  *)
(* shown when there is one, the date of the run otherwise.                 *)
C14_DateNeverFails ==
    (dl.page # 0 /\ dpc \notin {"saveHtml", "find"} /\ "html" \notin dl.failed
                 /\ Cardinality(PageAnchors[dl.page]) = 1) =>
        /\ dl.csvLinkDetails.kind = "ok"
        /\ dl.updatedDate # <<>>
        /\ IF IsNull(PageDateCell[dl.page])
           THEN dl.updatedDate = Today
           ELSE IsTrimOf(dl.updatedDate, Val(PageDateCell[dl.page]))
        /\ dpc = "done" => dl.downloadCalled
        /\ (dpc # "saveMetadata" /\ "downloadMetadata" \notin dl.failed) =>
            /\ fs["downloadMetadata"][1] = "jsonObj"
            /\ fs["downloadMetadata"][2].ofcomReportedLastUpdate = dl.updatedDate

\* a download after a page whose row has a blank second cell
C14_Witness ==
    /\ dpc = "done"
    /\ dl.page # 0
    /\ Pages[dl.page] = PageBlankCell
    /\ dl.downloadCalled
    /\ fs["downloadMetadata"] = JsonObj(DownloadMetadata(dl))
    /\ dl.updatedDate = Today

\* the fields of a processing metadata record
MetadataFields ==
    {"originalCsvSize", "originalCsvHash", "sortedCsvSize", "sortedCsvHash",
     "originalJsonSize", "originalJsonHash", "sortedJsonSize", "sortedJsonHash",
     "recordCount", "provenance"}

(* C15: the metadata record a reprocessing run has written is a new        *)
(* record: it counts the records of the raw file, and its url,             *)
(* ofcomLastUpdate and linkText are the url, ofcomReportedLastUpdate and   *)
(* linkText of the download metadata on disk when that file can be read;   *)
(* when it cannot, the record has none of the three, whatever the record   *)
(* before it had.                                                          *)
C15_MetadataMerge ==
    (ppc = "finish" /\ pl.metadataSaved) =>
        /\ fs["metadata"][1] = "jsonObj"
        /\ DOMAIN fs["metadata"][2] = MetadataFields
        /\ fs["metadata"][2].recordCount = Len(fs["raw"][2])
        /\ IF fs["downloadMetadata"][1] = "jsonObj"
           THEN fs["metadata"][2].provenance =
                    Some([url |-> fs["downloadMetadata"][2].url,
                          ofcomLastUpdate |->
                              fs["downloadMetadata"][2].ofcomReportedLastUpdate,
                          linkText |-> fs["downloadMetadata"][2].linkText])
           ELSE fs["metadata"][2].provenance = Null

\* a record without the three fields written over a record that had them
C15_Witness ==
    /\ ppc = "finish"
    /\ pl.metadataSaved
    /\ fs["downloadMetadata"][1] # "jsonObj"
    /\ RecordsHash(pl.atStart["metadata"])
    /\ ~IsNull(pl.atStart["metadata"][2].provenance)

\* a record with the three fields of the download metadata
C15_WitnessMerged ==
    /\ ppc = "finish"
    /\ pl.metadataSaved
    /\ fs["downloadMetadata"][1] = "jsonObj"
    /\ ~IsNull(fs["metadata"][2].provenance)

(* C16: whenever a processing run exits with code 0, the sorted CSV, the   *)
(* JSON and the sorted JSON on disk are the files derived from the raw     *)
(* file as it is, and the metadata record holds the digest of the raw      *)
(* file.                                                                   *)
C16_ExitZeroMeansDerived ==
    (ppc = "done" /\ pl.exitCode = 0) =>
        /\ fs["raw"][1] = "csv"
        /\ fs["sortedCsv"] = Csv(SortRows(fs["raw"][2]))
        /\ fs["json"] = JsonRows(fs["raw"][2])
        /\ fs["sortedJson"] = JsonRows(SortRows(fs["raw"][2]))
        /\ RecordsHash(fs["metadata"])
        /\ fs["metadata"][2].originalCsvHash = Digest(fs["raw"])

\* the record describes the three files as they are on disk
DescribesDisk(m) ==
    /\ m.sortedCsvHash = Digest(fs["sortedCsv"])
    /\ m.sortedCsvSize = Size(fs["sortedCsv"])
    /\ m.originalJsonHash = Digest(fs["json"])
    /\ m.originalJsonSize = Size(fs["json"])
    /\ m.sortedJsonHash = Digest(fs["sortedJson"])
    /\ m.sortedJsonSize = Size(fs["sortedJson"])

C17_WitnessAbort ==
    /\ ppc = "done"
    /\ pl.wrote = {"sortedCsv"}
    /\ RecordsHash(fs["metadata"])

(* C18: a processing run on a raw file that holds something and parses to *)
(* no record ends with a non-zero exit code and has written no file: the   *)
(* derived files and the metadata record are as they were.                 *)
C18_ZeroRecordsAborts ==
    (ppc \notin {"idle", "checkRaw"} /\ fs["raw"] = Csv(<<>>)) =>
        /\ ppc \in {"decide", "decided", "parse", "done"}
        /\ pl.wrote = {}
        /\ \A n \in DerivedFiles : fs[n] = pl.atStart[n]
        /\ ppc = "decided" => pl.needsProcessing
        /\ ppc = "done" => pl.exitCode = 1

\* such a run, ended, with derived files of an earlier raw file on disk
C18_Witness ==
    /\ ppc = "done"
    /\ fs["raw"] = Csv(<<>>)
    /\ pl.failed = {"parse"}
    /\ \A n \in DerivedFiles : HoldsSomething(fs[n])

\* the candidates that have "callsign" in href or text, in whatever case
WithCallsign(links) ==
    {i \in 1..Len(links) :
        \/ ContainsIgnoringCase(links[i].Href, str_callsign)
        \/ ~IsNull(links[i].Text) /\ ContainsIgnoringCase(Val(links[i].Text), str_callsign)}

(* C19: the PowerShell script goes on with the first candidate that has    *)
(* "callsign" (in whatever case) in its href or text when there is one,    *)
(* and with the first candidate when there is none; with no candidate it   *)
(* exits with code 1 and downloads nothing.                                *)
C19_LegacySelection ==
    (fn.op = "legacySelect" /\ fn.done) =>
        IF fn.links = <<>>
        THEN /\ fn.res.exited
             /\ fn.res.exitCode = 1
             /\ ~fn.res.downloads
             /\ fn.res.bestMatch = 0
        ELSE /\ ~fn.res.exited
             /\ fn.res.downloads
             /\ IF WithCallsign(fn.links) = {}
                THEN fn.res.bestMatch = 1
                ELSE /\ fn.res.bestMatch \in WithCallsign(fn.links)
                     /\ \A i \in WithCallsign(fn.links) : fn.res.bestMatch <= i

\* the second of three candidates selected, for its text, with another
\* candidate with the word after it
C19_Witness ==
    /\ fn.op = "legacySelect"
    /\ fn.done
    /\ Len(fn.links) = 3
    /\ fn.res.bestMatch = 2
    /\ fn.links[2].Href = href_root
    /\ 3 \in WithCallsign(fn.links)

=============================================================================
